---- MODULE Spec2Model ----
(***************************************************************************)
(* Model of the hardfork-aware request validators of edr_provider          *)
(* (crates/edr_provider/src/requests/validation.rs) and of the evm_*       *)
(* command handlers (crates/edr_provider/src/requests/eth/evm.rs).         *)
(***************************************************************************)
EXTENDS Integers, Sequences, FiniteSets, TLC

(***************************************************************************)
(* Bounds of the model.                                                    *)
(***************************************************************************)
MaxFee == 1
MaxListLen == 1
MaxBlockNumber == 1
LenMargin == 1
MaxBlocks == 2
MaxTime == 2
MaxGasLimit == 2

(***************************************************************************)
(* SpecId: the ordered hardfork identifier (discriminants of the enum).    *)
(***************************************************************************)
MUIR_GLACIER == 10
BERLIN == 11
LONDON == 12
MERGE == 15
SHANGHAI == 16
CANCUN == 17
LATEST == 255

SpecId == (0..CANCUN) \cup {LATEST}

\* `{spec_id:?}`: the Debug rendering of a SpecId
SpecIdDebug(id) ==
  CASE id = 0 -> "FRONTIER"
    [] id = 1 -> "FRONTIER_THAWING"
    [] id = 2 -> "HOMESTEAD"
    [] id = 3 -> "DAO_FORK"
    [] id = 4 -> "TANGERINE"
    [] id = 5 -> "SPURIOUS_DRAGON"
    [] id = 6 -> "BYZANTIUM"
    [] id = 7 -> "CONSTANTINOPLE"
    [] id = 8 -> "PETERSBURG"
    [] id = 9 -> "ISTANBUL"
    [] id = MUIR_GLACIER -> "MUIR_GLACIER"
    [] id = BERLIN -> "BERLIN"
    [] id = LONDON -> "LONDON"
    [] id = 13 -> "ARROW_GLACIER"
    [] id = 14 -> "GRAY_GLACIER"
    [] id = MERGE -> "MERGE"
    [] id = SHANGHAI -> "SHANGHAI"
    [] id = CANCUN -> "CANCUN"
    [] OTHER -> "LATEST"

MAX_INITCODE_SIZE == 49152

(***************************************************************************)
(* Option<T>: None is the empty sequence, Some(x) the one-element one.     *)
(***************************************************************************)
None == <<>>
Some(x) == <<x>>
is_some(o) == o # <<>>
unwrap(o) == o[1]
Option(S) == {None} \cup {Some(x) : x \in S}

U256 == 0..MaxFee
Vecs == UNION {[1..n -> {0}] : n \in 0..MaxListLen}

(***************************************************************************)
(* The request shapes and the canonical view built from them.              *)
(***************************************************************************)
SpecValidationData ==
  [gas_price : Option(U256),
   max_fee_per_gas : Option(U256),
   max_priority_fee_per_gas : Option(U256),
   access_list : Option(Vecs),
   blobs : Option(Vecs),
   blob_hashes : Option(Vecs)]

EthTransactionRequest == SpecValidationData
CallRequest == SpecValidationData

SignedTransaction ==
       [type : {"PreEip155Legacy", "PostEip155Legacy"}, gas_price : U256]
  \cup [type : {"Eip2930"}, gas_price : U256, access_list : Vecs]
  \cup [type : {"Eip1559"}, max_fee_per_gas : U256,
        max_priority_fee_per_gas : U256, access_list : Vecs]
  \cup [type : {"Eip4844"}, max_fee_per_gas : U256,
        max_priority_fee_per_gas : U256, access_list : Vecs,
        blob_hashes : Vecs]

NoRequest ==
  [gas_price |-> None, max_fee_per_gas |-> None,
   max_priority_fee_per_gas |-> None, access_list |-> None,
   blobs |-> None, blob_hashes |-> None]

NoTransaction == [type |-> "None"]

FromEthTransactionRequest(value) ==
  [gas_price |-> value.gas_price,
   max_fee_per_gas |-> value.max_fee_per_gas,
   max_priority_fee_per_gas |-> value.max_priority_fee_per_gas,
   access_list |-> value.access_list,
   blobs |-> value.blobs,
   blob_hashes |-> value.blob_hashes]

FromCallRequest(value) ==
  [gas_price |-> value.gas_price,
   max_fee_per_gas |-> value.max_fee_per_gas,
   max_priority_fee_per_gas |-> value.max_priority_fee_per_gas,
   access_list |-> value.access_list,
   blobs |-> value.blobs,
   blob_hashes |-> value.blob_hashes]

\* a signed fee-market transaction that also reports a gas price
FromSignedTransaction_GasPriceKept(value) ==
  CASE value.type \in {"PreEip155Legacy", "PostEip155Legacy"} ->
         [NoRequest EXCEPT !.gas_price = Some(value.gas_price)]
    [] value.type = "Eip2930" ->
         [NoRequest EXCEPT !.gas_price = Some(value.gas_price),
                           !.access_list = Some(value.access_list)]
    [] value.type = "Eip1559" ->
         [NoRequest EXCEPT !.gas_price = Some(value.max_fee_per_gas),
                           !.max_fee_per_gas = Some(value.max_fee_per_gas),
                           !.max_priority_fee_per_gas =
                              Some(value.max_priority_fee_per_gas),
                           !.access_list = Some(value.access_list)]
    [] value.type = "Eip4844" ->
         [NoRequest EXCEPT !.max_fee_per_gas = Some(value.max_fee_per_gas),
                           !.max_priority_fee_per_gas =
                              Some(value.max_priority_fee_per_gas),
                           !.access_list = Some(value.access_list),
                           !.blob_hashes = Some(value.blob_hashes)]

FromSignedTransaction(value) ==
  CASE value.type = "PreEip155Legacy" ->
         [gas_price |-> Some(value.gas_price),
          max_fee_per_gas |-> None,
          max_priority_fee_per_gas |-> None,
          access_list |-> None,
          blobs |-> None,
          blob_hashes |-> None]
    [] value.type = "PostEip155Legacy" ->
         [gas_price |-> Some(value.gas_price),
          max_fee_per_gas |-> None,
          max_priority_fee_per_gas |-> None,
          access_list |-> None,
          blobs |-> None,
          blob_hashes |-> None]
    [] value.type = "Eip2930" ->
         [gas_price |-> Some(value.gas_price),
          max_fee_per_gas |-> None,
          max_priority_fee_per_gas |-> None,
          access_list |-> Some(value.access_list),
          blobs |-> None,
          blob_hashes |-> None]
    [] value.type = "Eip1559" ->
         [gas_price |-> None,
          max_fee_per_gas |-> Some(value.max_fee_per_gas),
          max_priority_fee_per_gas |-> Some(value.max_priority_fee_per_gas),
          access_list |-> Some(value.access_list),
          blobs |-> None,
          blob_hashes |-> None]
    [] value.type = "Eip4844" ->
         [gas_price |-> None,
          max_fee_per_gas |-> Some(value.max_fee_per_gas),
          max_priority_fee_per_gas |-> Some(value.max_priority_fee_per_gas),
          access_list |-> Some(value.access_list),
          blobs |-> None,
          blob_hashes |-> Some(value.blob_hashes)]

(***************************************************************************)
(* ProviderError values and Ok(()).                                        *)
(***************************************************************************)
Ok == [kind |-> "Ok"]

UnsupportedAccessListParameter(current, minimum) ==
  [kind |-> "UnsupportedAccessListParameter",
   current_hardfork |-> current, minimum_hardfork |-> minimum]

UnsupportedEIP1559Parameters(current, minimum) ==
  [kind |-> "UnsupportedEIP1559Parameters",
   current_hardfork |-> current, minimum_hardfork |-> minimum]

UnsupportedEIP4844Parameters(current, minimum) ==
  [kind |-> "UnsupportedEIP4844Parameters",
   current_hardfork |-> current, minimum_hardfork |-> minimum]

InvalidTransactionInput(msg) ==
  [kind |-> "InvalidTransactionInput", message |-> msg]

InvalidArgument(msg) == [kind |-> "InvalidArgument", message |-> msg]

InvalidBlockTag(tag, hardfork) ==
  [kind |-> "InvalidBlockTag", block_tag |-> tag, spec |-> hardfork]

Unimplemented(msg) == [kind |-> "Unimplemented", message |-> msg]

(***************************************************************************)
(* Hardfork rule engine.                                                   *)
(***************************************************************************)
GasPriceConflict(data) ==
  IF is_some(data.gas_price) /\ is_some(data.max_fee_per_gas)
  THEN InvalidTransactionInput(
         "Cannot send both gasPrice and maxFeePerGas params")
  ELSE IF is_some(data.gas_price) /\ is_some(data.max_priority_fee_per_gas)
  THEN InvalidTransactionInput(
         "Cannot send both gasPrice and maxPriorityFeePerGas")
  ELSE IF is_some(data.gas_price) /\ is_some(data.blobs)
  THEN InvalidTransactionInput("Cannot send both gasPrice and blobs")
  ELSE IF is_some(data.gas_price) /\ is_some(data.blob_hashes)
  THEN InvalidTransactionInput("Cannot send both gasPrice and blobHashes")
  ELSE Ok

FeeOrder(data) ==
  IF /\ is_some(data.max_fee_per_gas)
     /\ is_some(data.max_priority_fee_per_gas)
     /\ unwrap(data.max_priority_fee_per_gas) > unwrap(data.max_fee_per_gas)
  THEN InvalidTransactionInput(
         "maxPriorityFeePerGas ("
           \o ToString(unwrap(data.max_priority_fee_per_gas))
           \o ") is bigger than maxFeePerGas ("
           \o ToString(unwrap(data.max_fee_per_gas)) \o ")")
  ELSE Ok

StructuralRules(data) ==
  IF GasPriceConflict(data) # Ok THEN GasPriceConflict(data)
  ELSE FeeOrder(data)

\* the structural rules evaluated ahead of the hardfork gates
validate_transaction_spec_StructuralFirst(spec_id, data) ==
  IF StructuralRules(data) # Ok THEN StructuralRules(data)
  ELSE IF spec_id < BERLIN /\ is_some(data.access_list)
  THEN UnsupportedAccessListParameter(spec_id, BERLIN)
  ELSE IF spec_id < LONDON /\ (is_some(data.max_fee_per_gas)
                               \/ is_some(data.max_priority_fee_per_gas))
  THEN UnsupportedEIP1559Parameters(spec_id, BERLIN)
  ELSE IF spec_id < CANCUN /\ (is_some(data.blobs)
                               \/ is_some(data.blob_hashes))
  THEN UnsupportedEIP4844Parameters(spec_id, CANCUN)
  ELSE Ok

\* the access-list gate with an off-by-one hardfork comparison
validate_transaction_spec_AccessListGateOffByOne(spec_id, data) ==
  IF spec_id <= BERLIN /\ is_some(data.access_list)
  THEN UnsupportedAccessListParameter(spec_id, BERLIN)
  ELSE IF spec_id < LONDON /\ (is_some(data.max_fee_per_gas)
                               \/ is_some(data.max_priority_fee_per_gas))
  THEN UnsupportedEIP1559Parameters(spec_id, BERLIN)
  ELSE IF spec_id < CANCUN /\ (is_some(data.blobs)
                               \/ is_some(data.blob_hashes))
  THEN UnsupportedEIP4844Parameters(spec_id, CANCUN)
  ELSE StructuralRules(data)

\* the gasPrice conflict check without its blobHashes branch
validate_transaction_spec_NoBlobHashesConflict(spec_id, data) ==
  IF spec_id < BERLIN /\ is_some(data.access_list)
  THEN UnsupportedAccessListParameter(spec_id, BERLIN)
  ELSE IF spec_id < LONDON /\ (is_some(data.max_fee_per_gas)
                               \/ is_some(data.max_priority_fee_per_gas))
  THEN UnsupportedEIP1559Parameters(spec_id, BERLIN)
  ELSE IF spec_id < CANCUN /\ (is_some(data.blobs)
                               \/ is_some(data.blob_hashes))
  THEN UnsupportedEIP4844Parameters(spec_id, CANCUN)
  ELSE IF GasPriceConflict([data EXCEPT !.blob_hashes = None]) # Ok
  THEN GasPriceConflict([data EXCEPT !.blob_hashes = None])
  ELSE FeeOrder(data)

\* the blob gate looking at `blobs` only
validate_transaction_spec_BlobGateBlobsOnly(spec_id, data) ==
  IF spec_id < BERLIN /\ is_some(data.access_list)
  THEN UnsupportedAccessListParameter(spec_id, BERLIN)
  ELSE IF spec_id < LONDON /\ (is_some(data.max_fee_per_gas)
                               \/ is_some(data.max_priority_fee_per_gas))
  THEN UnsupportedEIP1559Parameters(spec_id, BERLIN)
  ELSE IF spec_id < CANCUN /\ is_some(data.blobs)
  THEN UnsupportedEIP4844Parameters(spec_id, CANCUN)
  ELSE StructuralRules(data)

validate_transaction_spec(spec_id, data) ==
  IF spec_id < BERLIN /\ is_some(data.access_list)
  THEN UnsupportedAccessListParameter(spec_id, BERLIN)
  ELSE IF spec_id < LONDON /\ (is_some(data.max_fee_per_gas)
                               \/ is_some(data.max_priority_fee_per_gas))
  THEN UnsupportedEIP1559Parameters(spec_id, BERLIN)
  ELSE IF spec_id < CANCUN /\ (is_some(data.blobs)
                               \/ is_some(data.blob_hashes))
  THEN UnsupportedEIP4844Parameters(spec_id, CANCUN)
  ELSE StructuralRules(data)

(***************************************************************************)
(* Diagnostic translation.                                                 *)
(***************************************************************************)
AccessListMessage(minimum_hardfork) ==
  "Access list received but is not supported by the current hardfork. \n\nYou can use them by running Hardhat Network with 'hardfork' "
    \o SpecIdDebug(minimum_hardfork) \o " or later.\n        "

Eip1559Message(minimum_hardfork) ==
  "EIP-1559 style fee params (maxFeePerGas or maxPriorityFeePerGas) received but they are not supported by the current hardfork.\n\nYou can use them by running Hardhat Network with 'hardfork' "
    \o SpecIdDebug(minimum_hardfork) \o " or later.\n        "

\* the wrapper also rewriting the blob violation
validate_transaction_and_call_request_RewritesBlob(spec_id, validation_data) ==
  LET err == validate_transaction_spec(spec_id, validation_data)
  IN  IF err.kind \in {"UnsupportedAccessListParameter",
                       "UnsupportedEIP4844Parameters"}
      THEN InvalidArgument(AccessListMessage(err.minimum_hardfork))
      ELSE err

validate_transaction_and_call_request(spec_id, validation_data) ==
  LET err == validate_transaction_spec(spec_id, validation_data)
  IN  IF err.kind = "UnsupportedAccessListParameter"
      THEN InvalidArgument(AccessListMessage(err.minimum_hardfork))
      ELSE err

(***************************************************************************)
(* Block references and the block-tag guard.                               *)
(***************************************************************************)
BlockTag == {"Earliest", "Latest", "Pending", "Safe", "Finalized"}
BlockNumbers == 0..MaxBlockNumber

PreEip1898BlockSpec ==
       [kind : {"Number"}, number : BlockNumbers]
  \cup [kind : {"Tag"}, tag : BlockTag]

BlockSpec ==
       [kind : {"Number"}, number : BlockNumbers]
  \cup [kind : {"Tag"}, tag : BlockTag]
  \cup [kind : {"Eip1898"}, by : {"Hash", "Number"}, value : BlockNumbers]

ValidationBlockSpec ==
       [variant : {"PreEip1898"}, inner : PreEip1898BlockSpec]
  \cup [variant : {"PostEip1898"}, inner : BlockSpec]

FromPreEip1898BlockSpec(value) == [variant |-> "PreEip1898", inner |-> value]
FromBlockSpec(value) == [variant |-> "PostEip1898", inner |-> value]

ToBlockSpec(value) ==
  IF value.variant = "PreEip1898" /\ value.inner.kind = "Number"
  THEN [kind |-> "Number", number |-> value.inner.number]
  ELSE IF value.variant = "PreEip1898" /\ value.inner.kind = "Tag"
  THEN [kind |-> "Tag", tag |-> value.inner.tag]
  ELSE value.inner

\* the guard matching the newer wire shape only
validate_post_merge_block_tags_PostShapeOnly(hardfork, block_spec) ==
  IF /\ hardfork < MERGE
     /\ block_spec.variant = "PostEip1898"
     /\ block_spec.inner.kind = "Tag"
     /\ block_spec.inner.tag \in {"Safe", "Finalized"}
  THEN InvalidBlockTag(block_spec.inner.tag, hardfork)
  ELSE Ok

validate_post_merge_block_tags(hardfork, block_spec) ==
  IF /\ hardfork < MERGE
     /\ \/ /\ block_spec.variant = "PreEip1898"
           /\ block_spec.inner.kind = "Tag"
           /\ block_spec.inner.tag \in {"Safe", "Finalized"}
        \/ /\ block_spec.variant = "PostEip1898"
           /\ block_spec.inner.kind = "Tag"
           /\ block_spec.inner.tag \in {"Safe", "Finalized"}
  THEN InvalidBlockTag(block_spec.inner.tag, hardfork)
  ELSE Ok

validate_call_request(spec_id, call_request, block_spec) ==
  LET tags == validate_post_merge_block_tags(spec_id, FromBlockSpec(block_spec))
      err == validate_transaction_and_call_request(
               spec_id, FromCallRequest(call_request))
  IN  IF tags # Ok THEN tags
      ELSE IF err.kind = "UnsupportedEIP1559Parameters"
      THEN InvalidArgument(Eip1559Message(err.minimum_hardfork))
      ELSE err

(***************************************************************************)
(* Init-code size guard.                                                   *)
(***************************************************************************)
Address == {0}
DataLens == {0} \cup ((MAX_INITCODE_SIZE - LenMargin)..(MAX_INITCODE_SIZE + LenMargin))

InitcodeMessage(len) ==
  "\nTrying to send a deployment transaction whose init code length is "
    \o ToString(len) \o ". The max length allowed by EIP-3860 is "
    \o ToString(MAX_INITCODE_SIZE)
    \o ".\n\nEnable the 'allowUnlimitedContractSize' option to allow init codes of any length."

\* the size comparison made inclusive
validate_eip3860_max_initcode_size_Inclusive(spec_id, allow_unlimited_contract_code_size, to, data_len) ==
  IF spec_id < SHANGHAI \/ is_some(to) \/ allow_unlimited_contract_code_size
  THEN Ok
  ELSE IF data_len >= MAX_INITCODE_SIZE
  THEN InvalidArgument(InitcodeMessage(data_len))
  ELSE Ok

validate_eip3860_max_initcode_size(spec_id, allow_unlimited_contract_code_size, to, data_len) ==
  IF spec_id < SHANGHAI \/ is_some(to) \/ allow_unlimited_contract_code_size
  THEN Ok
  ELSE IF data_len > MAX_INITCODE_SIZE
  THEN InvalidArgument(InitcodeMessage(data_len))
  ELSE Ok

(***************************************************************************)
(* ProviderData: the chain-state store the command handlers delegate to.   *)
(***************************************************************************)
Timestamps == 0..MaxTime

InitialProviderData ==
  [blocks |-> <<>>,
   block_time_offset_seconds |-> 0,
   is_auto_mining |-> FALSE,
   block_gas_limit |-> 1,
   next_block_timestamp |-> None]

increase_block_time(d, increment) ==
  [d EXCEPT !.block_time_offset_seconds = @ + increment]

\* the store after a successful mine_and_commit_block
mine_and_commit_block(d, timestamp) ==
  [d EXCEPT !.blocks = Append(@, timestamp)]

set_auto_mining(d, automine) == [d EXCEPT !.is_auto_mining = automine]

set_block_gas_limit(d, gas_limit) == [d EXCEPT !.block_gas_limit = gas_limit]

set_next_block_timestamp(d, timestamp) ==
  [d EXCEPT !.next_block_timestamp = Some(timestamp)]

\* a log step that reports success
log_block_Succeeds(mine_block_result) == Ok

log_block(mine_block_result) == Unimplemented("log_block")

OkValue(v) == [kind |-> "Ok", value |-> v]

(***************************************************************************)
(* State.                                                                  *)
(***************************************************************************)
VARIABLES pc, op, spec_id, request, transaction, view, block_spec, initcode,
          result, data, mine_block_result, response

vars == <<pc, op, spec_id, request, transaction, view, block_spec, initcode,
          result, data, mine_block_result, response>>

validationVars == <<pc, spec_id, request, transaction, view, block_spec,
                    initcode, result>>
providerVars == <<data, mine_block_result, response>>

NoBlockSpec == FromBlockSpec([kind |-> "Tag", tag |-> "Latest"])
NoInitcode ==
  [allow_unlimited_contract_code_size |-> FALSE, to |-> None, data_len |-> 0]

Pending == [kind |-> "Pending"]

\* a validation call about to be made: the function and its arguments
Init ==
  /\ pc = "call"
  /\ result = Pending
  /\ data = InitialProviderData
  /\ mine_block_result = "none"
  /\ response = OkValue("")
  /\ spec_id \in SpecId
  /\ \/ /\ op \in {"validate_transaction_spec",
                   "validate_transaction_and_call_request"}
        /\ request \in EthTransactionRequest
        /\ transaction = NoTransaction
        /\ block_spec = NoBlockSpec
        /\ initcode = NoInitcode
     \/ /\ op = "validate_signed_transaction"
        /\ request = NoRequest
        /\ transaction \in SignedTransaction
        /\ block_spec = NoBlockSpec
        /\ initcode = NoInitcode
     \/ /\ op = "validate_call_request"
        /\ request \in CallRequest
        /\ transaction = NoTransaction
        /\ block_spec \in {FromBlockSpec(bs) : bs \in BlockSpec}
        /\ initcode = NoInitcode
     \/ /\ op = "validate_eip3860_max_initcode_size"
        /\ request = NoRequest
        /\ transaction = NoTransaction
        /\ block_spec = NoBlockSpec
        /\ initcode \in [allow_unlimited_contract_code_size : BOOLEAN,
                         to : Option(Address), data_len : DataLens]
     \/ /\ op = "validate_post_merge_block_tags"
        /\ request = NoRequest
        /\ transaction = NoTransaction
        /\ block_spec \in ValidationBlockSpec
        /\ initcode = NoInitcode
  /\ view = NoRequest

\* the provider right after construction, no request handled yet
ProviderInit ==
  /\ pc = "done"
  /\ op = "new"
  /\ spec_id = LATEST
  /\ request = NoRequest
  /\ transaction = NoTransaction
  /\ view = NoRequest
  /\ block_spec = NoBlockSpec
  /\ initcode = NoInitcode
  /\ result = Pending
  /\ data = InitialProviderData
  /\ mine_block_result = "none"
  /\ response = OkValue("")

(***************************************************************************)
(* Validation calls.                                                       *)
(***************************************************************************)
ValidateTransactionSpec ==
  /\ pc = "call"
  /\ op = "validate_transaction_spec"
  /\ view' = FromEthTransactionRequest(request)
  /\ result' = validate_transaction_spec(spec_id, view')
  /\ pc' = "done"
  /\ UNCHANGED <<op, spec_id, request, transaction, block_spec, initcode>>
  /\ UNCHANGED providerVars

ValidateTransactionRequest ==
  /\ pc = "call"
  /\ op = "validate_transaction_and_call_request"
  /\ view' = FromEthTransactionRequest(request)
  /\ result' = validate_transaction_and_call_request(spec_id, view')
  /\ pc' = "done"
  /\ UNCHANGED <<op, spec_id, request, transaction, block_spec, initcode>>
  /\ UNCHANGED providerVars

ValidateSignedTransaction ==
  /\ pc = "call"
  /\ op = "validate_signed_transaction"
  /\ view' = FromSignedTransaction(transaction)
  /\ result' = validate_transaction_and_call_request(spec_id, view')
  /\ pc' = "done"
  /\ UNCHANGED <<op, spec_id, request, transaction, block_spec, initcode>>
  /\ UNCHANGED providerVars

ValidateCallRequest ==
  /\ pc = "call"
  /\ op = "validate_call_request"
  /\ view' = FromCallRequest(request)
  /\ result' = validate_call_request(spec_id, request, ToBlockSpec(block_spec))
  /\ pc' = "done"
  /\ UNCHANGED <<op, spec_id, request, transaction, block_spec, initcode>>
  /\ UNCHANGED providerVars

ValidateEip3860MaxInitcodeSize ==
  /\ pc = "call"
  /\ op = "validate_eip3860_max_initcode_size"
  /\ result' = validate_eip3860_max_initcode_size(
                 spec_id, initcode.allow_unlimited_contract_code_size,
                 initcode.to, initcode.data_len)
  /\ pc' = "done"
  /\ UNCHANGED <<op, spec_id, request, transaction, view, block_spec,
                 initcode>>
  /\ UNCHANGED providerVars

ValidatePostMergeBlockTags ==
  /\ pc = "call"
  /\ op = "validate_post_merge_block_tags"
  /\ result' = validate_post_merge_block_tags(spec_id, block_spec)
  /\ pc' = "done"
  /\ UNCHANGED <<op, spec_id, request, transaction, view, block_spec,
                 initcode>>
  /\ UNCHANGED providerVars

(***************************************************************************)
(* Command handlers.                                                       *)
(***************************************************************************)
handle_increase_time_request ==
  \E increment \in Timestamps :
    /\ data.block_time_offset_seconds + increment <= MaxTime
    /\ op' = "handle_increase_time_request"
    /\ data' = increase_block_time(data, increment)
    /\ mine_block_result' = "none"
    /\ response' = OkValue(ToString(data'.block_time_offset_seconds))
    /\ UNCHANGED validationVars

\* mine_and_commit_block(timestamp)? then log_block(..)? then Ok("0")
handle_mine_request ==
  \E timestamp \in Option(Timestamps), mined \in BOOLEAN :
    /\ Len(data.blocks) < MaxBlocks
    /\ op' = "handle_mine_request"
    /\ IF mined
       THEN /\ data' = mine_and_commit_block(data, timestamp)
            /\ mine_block_result' = "Ok"
            /\ response' = IF log_block(mine_block_result') # Ok
                           THEN log_block(mine_block_result')
                           ELSE OkValue("0")
       ELSE /\ data' = data
            /\ mine_block_result' = "Err"
            /\ response' = [kind |-> "MineBlockError"]
    /\ UNCHANGED validationVars

handle_set_automine_request ==
  \E automine \in BOOLEAN :
    /\ op' = "handle_set_automine_request"
    /\ data' = set_auto_mining(data, automine)
    /\ mine_block_result' = "none"
    /\ response' = OkValue(TRUE)
    /\ UNCHANGED validationVars

handle_set_block_gas_limit_request ==
  \E gas_limit \in 0..MaxGasLimit, accepted \in BOOLEAN :
    /\ op' = "handle_set_block_gas_limit_request"
    /\ mine_block_result' = "none"
    /\ IF accepted
       THEN /\ data' = set_block_gas_limit(data, gas_limit)
            /\ response' = OkValue(TRUE)
       ELSE /\ data' = data
            /\ response' = [kind |-> "SetBlockGasLimitError"]
    /\ UNCHANGED validationVars

handle_set_next_block_timestamp_request ==
  \E timestamp \in Timestamps, accepted \in BOOLEAN :
    /\ op' = "handle_set_next_block_timestamp_request"
    /\ mine_block_result' = "none"
    /\ IF accepted
       THEN /\ data' = set_next_block_timestamp(data, timestamp)
            /\ response' = OkValue(ToString(unwrap(data'.next_block_timestamp)))
       ELSE /\ data' = data
            /\ response' = [kind |-> "SetNextBlockTimestampError"]
    /\ UNCHANGED validationVars

Next ==
  \/ ValidateTransactionSpec
  \/ ValidateTransactionRequest
  \/ ValidateSignedTransaction
  \/ ValidateCallRequest
  \/ ValidateEip3860MaxInitcodeSize
  \/ ValidatePostMergeBlockTags

Spec == Init /\ [][Next]_vars

ProviderNext ==
  \/ handle_increase_time_request
  \/ handle_mine_request
  \/ handle_set_automine_request
  \/ handle_set_block_gas_limit_request
  \/ handle_set_next_block_timestamp_request

ProviderSpec == ProviderInit /\ [][ProviderNext]_vars

TypeOK ==
  /\ spec_id \in SpecId
  /\ view \in SpecValidationData
  /\ block_spec \in ValidationBlockSpec
  /\ Len(data.blocks) <= MaxBlocks

(***************************************************************************)
(* Properties.                                                             *)
(***************************************************************************)
Returned(name) == pc = "done" /\ op = name

Rule1 == spec_id < BERLIN /\ is_some(view.access_list)
Rule2 == spec_id < LONDON /\ (is_some(view.max_fee_per_gas)
                              \/ is_some(view.max_priority_fee_per_gas))
Rule3 == spec_id < CANCUN /\ (is_some(view.blobs) \/ is_some(view.blob_hashes))
Rule4MaxFee == is_some(view.gas_price) /\ is_some(view.max_fee_per_gas)
Rule4Priority ==
  is_some(view.gas_price) /\ is_some(view.max_priority_fee_per_gas)
Rule4Blobs == is_some(view.gas_price) /\ is_some(view.blobs)
Rule4BlobHashes == is_some(view.gas_price) /\ is_some(view.blob_hashes)
Rule4 == Rule4MaxFee \/ Rule4Priority \/ Rule4Blobs \/ Rule4BlobHashes
Rule5 ==
  /\ is_some(view.max_fee_per_gas)
  /\ is_some(view.max_priority_fee_per_gas)
  /\ unwrap(view.max_priority_fee_per_gas) > unwrap(view.max_fee_per_gas)

ConflictMessages ==
  {"Cannot send both gasPrice and maxFeePerGas params",
   "Cannot send both gasPrice and maxPriorityFeePerGas",
   "Cannot send both gasPrice and blobs",
   "Cannot send both gasPrice and blobHashes"}

IsInvalidInput(r, msg) == r.kind = "InvalidTransactionInput" /\ r.message = msg

\* C1: validate_transaction_spec returns success or the violation of the
\* first applicable rule in the order access-list gate, fee-market gate,
\* blob gate, gasPrice conflicts (maxFeePerGas, maxPriorityFeePerGas, blobs,
\* blobHashes), fee ordering; it succeeds exactly when no rule applies.
C1_FirstApplicableRuleWins ==
  Returned("validate_transaction_spec") =>
    IF Rule1 THEN result.kind = "UnsupportedAccessListParameter"
    ELSE IF Rule2 THEN result.kind = "UnsupportedEIP1559Parameters"
    ELSE IF Rule3 THEN result.kind = "UnsupportedEIP4844Parameters"
    ELSE IF Rule4MaxFee
      THEN IsInvalidInput(result,
             "Cannot send both gasPrice and maxFeePerGas params")
    ELSE IF Rule4Priority
      THEN IsInvalidInput(result,
             "Cannot send both gasPrice and maxPriorityFeePerGas")
    ELSE IF Rule4Blobs
      THEN IsInvalidInput(result, "Cannot send both gasPrice and blobs")
    ELSE IF Rule4BlobHashes
      THEN IsInvalidInput(result, "Cannot send both gasPrice and blobHashes")
    ELSE IF Rule5
      THEN /\ result.kind = "InvalidTransactionInput"
           /\ result.message \notin ConflictMessages
    ELSE result = Ok

C1_Witness ==
  /\ Returned("validate_transaction_spec")
  /\ ~Rule1 /\ Rule2 /\ Rule3 /\ Rule4 /\ Rule5
  /\ result.kind = "UnsupportedEIP1559Parameters"

\* C2: before Berlin a present access list (even an empty one) always fails
\* with the unsupported-access-list violation carrying (H, Berlin); from
\* Berlin on that violation is never returned and a request that is valid
\* without its access list is valid with it.
C2_AccessListGate ==
  Returned("validate_transaction_spec") =>
    /\ (spec_id < BERLIN /\ is_some(view.access_list)) =>
         result = UnsupportedAccessListParameter(spec_id, BERLIN)
    /\ spec_id >= BERLIN => result.kind # "UnsupportedAccessListParameter"
    /\ (/\ spec_id >= BERLIN
        /\ is_some(view.access_list)
        /\ ~Rule2 /\ ~Rule3 /\ ~Rule4 /\ ~Rule5) => result = Ok

C2_Witness ==
  /\ Returned("validate_transaction_spec")
  /\ spec_id = MUIR_GLACIER
  /\ view.access_list = Some(<<>>)
  /\ is_some(view.max_fee_per_gas)
  /\ is_some(view.blobs)
  /\ result = UnsupportedAccessListParameter(MUIR_GLACIER, BERLIN)

\* C3: the unsupported-fee-market violation carries London as its minimum
\* hardfork, and the message validate_call_request builds from it names
\* London.
C3_FeeMarketMinimumIsLondon ==
  /\ (Returned("validate_transaction_spec")
      /\ result.kind = "UnsupportedEIP1559Parameters") =>
        result.minimum_hardfork = LONDON
  /\ (/\ Returned("validate_call_request")
      /\ validate_transaction_spec(spec_id, view).kind
           = "UnsupportedEIP1559Parameters"
      /\ result.kind # "InvalidBlockTag") =>
        result = InvalidArgument(Eip1559Message(LONDON))

\* C4 (as stated): gas_price together with any of maxFeePerGas,
\* maxPriorityFeePerGas, blobs, blobHashes fails with an invalid-input
\* violation at every hardfork.
C4_ConflictAlwaysInvalidInput ==
  (Returned("validate_transaction_spec") /\ Rule4) =>
    result.kind = "InvalidTransactionInput"

\* C4 (amended): gas_price together with any of maxFeePerGas,
\* maxPriorityFeePerGas, blobs, blobHashes fails at every hardfork; the
\* violation is invalid-input whenever no hardfork gate applies to the
\* request, and the unsupported-feature violation of the first applicable
\* gate otherwise.
C4_ConflictAlwaysFails ==
  (Returned("validate_transaction_spec") /\ Rule4) =>
    /\ result # Ok
    /\ (~Rule1 /\ ~Rule2 /\ ~Rule3) => result.kind = "InvalidTransactionInput"
    /\ (Rule1 \/ Rule2 \/ Rule3) =>
         result.kind \in {"UnsupportedAccessListParameter",
                          "UnsupportedEIP1559Parameters",
                          "UnsupportedEIP4844Parameters"}
    /\ spec_id >= CANCUN => result.kind = "InvalidTransactionInput"

C4_Witness ==
  /\ Returned("validate_transaction_spec")
  /\ spec_id = CANCUN
  /\ is_some(view.gas_price)
  /\ is_some(view.blob_hashes)
  /\ ~is_some(view.max_fee_per_gas)
  /\ ~is_some(view.max_priority_fee_per_gas)
  /\ ~is_some(view.blobs)
  /\ IsInvalidInput(result, "Cannot send both gasPrice and blobHashes")

\* C5: before Cancun a request with a blob field present (even empty) and
\* no access-list or fee-market field fails with the unsupported-blob
\* violation carrying minimum Cancun, also with gas_price present; from
\* Cancun on a request with only blob fields succeeds and the
\* unsupported-blob violation is never returned.
C5_BlobGate ==
  Returned("validate_transaction_spec") =>
    /\ (/\ spec_id < CANCUN
        /\ is_some(view.blobs) \/ is_some(view.blob_hashes)
        /\ ~is_some(view.access_list)
        /\ ~is_some(view.max_fee_per_gas)
        /\ ~is_some(view.max_priority_fee_per_gas)) =>
         result = UnsupportedEIP4844Parameters(spec_id, CANCUN)
    /\ spec_id >= CANCUN => result.kind # "UnsupportedEIP4844Parameters"
    /\ (/\ spec_id >= CANCUN
        /\ is_some(view.blobs) \/ is_some(view.blob_hashes)
        /\ ~is_some(view.gas_price)
        /\ ~is_some(view.access_list)
        /\ ~is_some(view.max_fee_per_gas)
        /\ ~is_some(view.max_priority_fee_per_gas)) => result = Ok

C5_Witness ==
  /\ Returned("validate_transaction_spec")
  /\ spec_id = LONDON
  /\ is_some(view.gas_price)
  /\ view.blob_hashes = Some(<<>>)
  /\ ~is_some(view.blobs)
  /\ result = UnsupportedEIP4844Parameters(LONDON, CANCUN)

\* the violation the wrapped checks raise for the call in the state
EngineOutcome == validate_transaction_spec(spec_id, view)
BlockTagOutcome == validate_post_merge_block_tags(spec_id, block_spec)
RaisedForCall == IF BlockTagOutcome # Ok THEN BlockTagOutcome ELSE EngineOutcome

\* C6 (as stated): validate_transaction_and_call_request rewrites exactly
\* the unsupported-access-list violation and validate_call_request exactly
\* the unsupported-fee-market violation; every other violation raised for
\* the request, unsupported-access-list included for a call request,
\* reaches the caller as the same typed violation.
C6_EachWrapperRewritesOnlyItsOwn ==
  /\ Returned("validate_transaction_and_call_request") =>
       /\ result.kind = "InvalidArgument"
            <=> EngineOutcome.kind = "UnsupportedAccessListParameter"
       /\ EngineOutcome.kind # "UnsupportedAccessListParameter" =>
            result = EngineOutcome
  /\ Returned("validate_call_request") =>
       /\ RaisedForCall.kind = "UnsupportedEIP1559Parameters" =>
            result.kind = "InvalidArgument"
       /\ RaisedForCall.kind # "UnsupportedEIP1559Parameters" =>
            result = RaisedForCall

\* C6 (amended): validate_transaction_and_call_request rewrites exactly the
\* unsupported-access-list violation into invalid-argument and returns
\* every other engine outcome as is; validate_call_request, which validates
\* through it, returns invalid-argument for both the unsupported-fee-market
\* and the unsupported-access-list violation, and every other outcome
\* (invalid-block-tag, unsupported-blob, invalid-input, success) unchanged.
C6_CallRequestRewritesBoth ==
  /\ Returned("validate_transaction_and_call_request") =>
       /\ result.kind = "InvalidArgument"
            <=> EngineOutcome.kind = "UnsupportedAccessListParameter"
       /\ EngineOutcome.kind # "UnsupportedAccessListParameter" =>
            result = EngineOutcome
  /\ Returned("validate_call_request") =>
       /\ RaisedForCall.kind = "UnsupportedEIP1559Parameters" =>
            result = InvalidArgument(
                       Eip1559Message(RaisedForCall.minimum_hardfork))
       /\ RaisedForCall.kind = "UnsupportedAccessListParameter" =>
            result = InvalidArgument(
                       AccessListMessage(RaisedForCall.minimum_hardfork))
       /\ RaisedForCall.kind \notin {"UnsupportedEIP1559Parameters",
                                     "UnsupportedAccessListParameter"} =>
            result = RaisedForCall

C6_Witness ==
  /\ Returned("validate_call_request")
  /\ spec_id = MUIR_GLACIER
  /\ is_some(view.access_list)
  /\ is_some(view.max_fee_per_gas)
  /\ BlockTagOutcome = Ok
  /\ result = InvalidArgument(AccessListMessage(BERLIN))

IsPostMergeTag(bs) ==
  bs.inner.kind = "Tag" /\ bs.inner.tag \in {"Safe", "Finalized"}

\* C7: validate_post_merge_block_tags fails, with the invalid-block-tag
\* violation carrying the tag and the hardfork, exactly when the hardfork is
\* before Merge and the reference is the tag safe or finalized; and a
\* reference in the older wire shape has the outcome of the equivalent
\* reference in the newer shape.
C7_BlockTagGuard ==
  Returned("validate_post_merge_block_tags") =>
    /\ result # Ok <=> (spec_id < MERGE /\ IsPostMergeTag(block_spec))
    /\ result # Ok => result = InvalidBlockTag(block_spec.inner.tag, spec_id)
    /\ result = validate_post_merge_block_tags(
                  spec_id, FromBlockSpec(ToBlockSpec(block_spec)))

C7_Witness ==
  /\ Returned("validate_post_merge_block_tags")
  /\ block_spec.variant = "PreEip1898"
  /\ block_spec.inner = [kind |-> "Tag", tag |-> "Finalized"]
  /\ spec_id = MERGE - 1
  /\ result = InvalidBlockTag("Finalized", MERGE - 1)

\* C8: validate_eip3860_max_initcode_size fails, with invalid-argument,
\* exactly when the hardfork is at or after Shanghai, the destination is
\* absent, the allow-unlimited flag is false and the payload is strictly
\* longer than MAX_INITCODE_SIZE.
C8_InitcodeSizeGuard ==
  Returned("validate_eip3860_max_initcode_size") =>
    /\ result.kind \in {"Ok", "InvalidArgument"}
    /\ result.kind = "InvalidArgument" <=>
         /\ spec_id >= SHANGHAI
         /\ initcode.to = None
         /\ ~initcode.allow_unlimited_contract_code_size
         /\ initcode.data_len > MAX_INITCODE_SIZE

C8_Witness ==
  /\ Returned("validate_eip3860_max_initcode_size")
  /\ spec_id = SHANGHAI
  /\ initcode.to = None
  /\ ~initcode.allow_unlimited_contract_code_size
  /\ initcode.data_len = MAX_INITCODE_SIZE
  /\ result = Ok

\* C9: no handle_mine_request call returns the success literal "0"; a call
\* whose mine_and_commit_block succeeds returns the Unimplemented error
\* with the mined block committed to the store, and a call whose
\* mine_and_commit_block fails returns that failure, not the log step's.
C9_MineNeverReturnsSuccess ==
  /\ [](op = "handle_mine_request" =>
          /\ response.kind # "Ok"
          /\ mine_block_result = "Ok" => response = Unimplemented("log_block")
          /\ mine_block_result = "Err" => response.kind = "MineBlockError")
  /\ [][handle_mine_request =>
          /\ mine_block_result' = "Ok" =>
               /\ Len(data'.blocks) = Len(data.blocks) + 1
               /\ SubSeq(data'.blocks, 1, Len(data.blocks)) = data.blocks
          /\ mine_block_result' = "Err" => data' = data]_vars

C9_Witness ==
  /\ op = "handle_mine_request"
  /\ mine_block_result = "Ok"
  /\ response = Unimplemented("log_block")
  /\ Len(data.blocks) >= 2

\* C10: for a signed transaction the view has gas_price exactly when both
\* fee fields are absent (legacy and access-list variants: gas_price only;
\* fee-market and blob variants: both fee fields, no gas_price) and blob
\* fields only for the blob variant; validation never yields a gas_price
\* conflict, and from Cancun on it fails only when the priority fee exceeds
\* the max fee.
C10_SignedTransactionView ==
  Returned("validate_signed_transaction") =>
    /\ is_some(view.gas_price) <=>
         (~is_some(view.max_fee_per_gas)
          /\ ~is_some(view.max_priority_fee_per_gas))
    /\ transaction.type \in {"PreEip155Legacy", "PostEip155Legacy", "Eip2930"}
         => view.gas_price = Some(transaction.gas_price)
    /\ transaction.type \in {"Eip1559", "Eip4844"} =>
         /\ view.gas_price = None
         /\ view.max_fee_per_gas = Some(transaction.max_fee_per_gas)
         /\ view.max_priority_fee_per_gas
              = Some(transaction.max_priority_fee_per_gas)
    /\ (is_some(view.blobs) \/ is_some(view.blob_hashes))
         => transaction.type = "Eip4844"
    /\ result.kind = "InvalidTransactionInput"
         => result.message \notin ConflictMessages
    /\ (spec_id >= CANCUN /\ result # Ok) =>
         /\ result.kind = "InvalidTransactionInput"
         /\ transaction.max_priority_fee_per_gas > transaction.max_fee_per_gas

C10_Witness ==
  /\ Returned("validate_signed_transaction")
  /\ transaction.type = "Eip4844"
  /\ spec_id = CANCUN
  /\ transaction.max_priority_fee_per_gas > transaction.max_fee_per_gas
  /\ result.kind = "InvalidTransactionInput"

====
